---- MODULE Spec2Model ----
(***************************************************************************)
(* Model of backend/internal/socket/handler/socket.go: the Socket.IO       *)
(* handler that receives file:update notifications, acknowledges them and  *)
(* reconciles each one against the workspace/file store on its own         *)
(* goroutine.                                                              *)
(*                                                                         *)
(* One handler thread per connection delivers events one at a time; every  *)
(* decoded file:update spawns a task (processFileUpdateAsync).  A step of  *)
(* a task is one call to an external collaborator (user service, workspace *)
(* usecase, workspace file service) or one half of a socket write.  A      *)
(* socket write is an interval: it begins, and later ends by appending the *)
(* message to the connection's outbound log.                               *)
(*                                                                         *)
(* A string is modelled as a TLA+ string, a formatted message              *)
(* (fmt.Sprintf("prefix: %v", err)) as the sequence of its fragments, and  *)
(* a JSON text by the outcome of json.Unmarshal on it together with the    *)
(* fields it decodes to.                                                   *)
(***************************************************************************)
EXTENDS Integers, Sequences, FiniteSets, TLC

(* ------------------------------ bounds --------------------------------- *)
\* connections accepted by the server
NumConns == 2
\* events delivered to the server over all connections
MaxEvents == 2

Conns == 1..NumConns
EventNos == 1..MaxEvents

(* ------------------------------ values --------------------------------- *)
Nil == "nil"
NoFile == [id |-> 0, ws |-> "", path |-> "", hash |-> "", content |-> ""]
NoUpdate ==
    [ID |-> 0, FilePath |-> "", Hash |-> "", Event |-> "", Content |-> "",
     PreviousHash |-> "", Timestamp |-> 0, ApiKey |-> "", WorkspacePath |-> ""]

KnownEvents == {"initial_scan", "added", "modified", "deleted"}
EventKinds == KnownEvents \cup {"renamed"}
ApiKeys == {"k1", "bad"}
Roots == {"/w", ""}
Paths == {"p", ""}
\* what a client reports about a file: its hash and its content
Versions == {<<"h1", "c2">>, <<"h2", "c2">>}

\* One notification per case of the reconciliation: a field varies only
\* where the goroutine can come to read it (the path and the version once
\* the key and the root are good and the event has a case of its own).
Varied(p, v, e, k, w) ==
    \/ k = "k1" /\ w = "/w" /\ e \in {"initial_scan", "added", "modified"}
         /\ (p = "p" \/ v = <<"h1", "c2">>)
    \/ k = "k1" /\ w = "/w" /\ e = "deleted" /\ v = <<"h1", "c2">>
    \/ p = "p" /\ v = <<"h1", "c2">> /\ (k = "k1" \/ w = "/w" \/ e = "added")

\* The narrow workload: one notification per event kind, per outcome of
\* the hash comparison and per failure before the switch.
Narrow(p, v, e, k, w) ==
    /\ p = "p"
    /\ \/ k = "k1" /\ w = "/w" /\ (v = <<"h1", "c2">> \/ e = "added")
       \/ e = "added" /\ (k = "k1" \/ w = "/w") /\ v = <<"h1", "c2">>

\* The sparse workload: one notification per store call, and a bad key.
Sparse(p, v, e, k, w) ==
    /\ p = "p" /\ v = <<"h1", "c2">> /\ w = "/w"
    /\ \/ k = "k1" /\ e \in {"added", "modified", "deleted"}
       \/ k = "bad" /\ e = "added"

\* The hash workload: added notifications for one path that differ in every
\* field a comparison with the stored record could read (hash, content,
\* previousHash, timestamp), and one deleted notification.
Hashes == {"h1", "h2"}
Contents == {"c1", "c2"}
PreviousHashes == {"", "h0"}
Timestamps == {0, 1}
HashUpdates(n) ==
    { [ID |-> n, FilePath |-> "p", Hash |-> x[1], Event |-> "added", Content |-> x[2],
       PreviousHash |-> x[3], Timestamp |-> x[4], ApiKey |-> "k1", WorkspacePath |-> "/w"] :
        x \in Hashes \X Contents \X PreviousHashes \X Timestamps }
    \cup {[ID |-> n, FilePath |-> "p", Hash |-> "h1", Event |-> "deleted", Content |-> "",
           PreviousHash |-> "", Timestamp |-> 0, ApiKey |-> "k1", WorkspacePath |-> "/w"]}

\* The sequential workload: every event kind with either hash for one path.
\* The id is the client's to choose and comes back in the final result: here
\* it spells out the notification (its number, event kind and hash).
SeqUpdates(n) ==
    { [ID |-> <<n, x[1], x[2]>>, FilePath |-> "p", Hash |-> x[2], Event |-> x[1],
       Content |-> "c2", PreviousHash |-> "", Timestamp |-> 0, ApiKey |-> "k1",
       WorkspacePath |-> "/w"] : x \in KnownEvents \X Hashes }

\* the FileUpdateData values clients send; the n-th event carries id n
Updates(n, load) ==
    IF load = "hash" THEN HashUpdates(n)
    ELSE IF load = "seq" THEN SeqUpdates(n)
    ELSE
    { [ID |-> n, FilePath |-> x[1], Hash |-> x[2][1], Event |-> x[3], Content |-> x[2][2],
       PreviousHash |-> "", Timestamp |-> 0, ApiKey |-> x[4], WorkspacePath |-> x[5]] :
        x \in {y \in Paths \X Versions \X EventKinds \X ApiKeys \X Roots :
                 CASE load = "all" -> Varied(y[1], y[2], y[3], y[4], y[5])
                   [] load = "narrow" -> Narrow(y[1], y[2], y[3], y[4], y[5])
                   [] OTHER -> Sparse(y[1], y[2], y[3], y[4], y[5])} }

\* data.Data of a file:update event: empty, or a first element that is a
\* map, a string (by what json.Unmarshal makes of it) or something else
FileUpdatePayloads(n, load) ==
    {[type |-> "none", parse |-> "", fields |-> NoUpdate],
     [type |-> "number", parse |-> "", fields |-> NoUpdate],
     [type |-> "string", parse |-> "syntax_error", fields |-> NoUpdate],
     [type |-> "string", parse |-> "type_error", fields |-> NoUpdate]}
    \cup {[type |-> "string", parse |-> "ok", fields |-> u] : u \in Updates(n, load)}
    \cup {[type |-> "map", parse |-> "", fields |-> u] : u \in Updates(n, load)}

\* data.Data of a test:ping or heartbeat event
TextPayloads ==
    {[type |-> "none", parse |-> ""], [type |-> "number", parse |-> ""],
     [type |-> "string", parse |-> "syntax_error"], [type |-> "string", parse |-> "ok"]}

VARIABLES
    workload,    \* which notifications the clients of this run send
    handler,     \* per connection: where its event handler is and what it is writing
    tasks,       \* event number -> the goroutine spawned for that file:update
    mu,          \* h.mu: Nil when free, else its holder
    writers,     \* per connection: who is writing to the socket right now
    out,         \* per connection: the messages written to the socket, in order
    nev,         \* events delivered so far
    delivered,   \* event number -> what arrived: connection, channel, payload shape, callback, path
    workspaces,  \* workspace usecase: the workspaces that exist
    files,       \* workspace file service: the live file records
    nextId       \* workspace file service: next record id

vars ==
    <<workload, handler, tasks, mu, writers, out, nev, delivered, workspaces, files, nextId>>

store == <<workspaces, files, nextId>>

Idle == [pc |-> "idle", ev |-> "", resp |-> [status |-> ""], n |-> 0]
New == [Idle EXCEPT !.pc = "new"]
Absent == [Idle EXCEPT !.pc = "absent"]

H(c) == <<"handler", c>>
T(n) == <<"task", n>>

(* ------------------- external collaborators (interfaces) --------------- *)
\* any call to the store may fail with an infrastructure error, except in
\* the runs against a store that never fails
FaultChoices == IF workload = "seq" THEN {FALSE} ELSE BOOLEAN

WorkspaceIdOf(userID, root) == IF userID = "u1" /\ root = "/w" THEN "w1" ELSE "w0"

\* the user service's records: api key -> user id
Users == [k \in {"k1"} |-> "u1"]

\* domain.UserUsecase.GetUserByApiKey
GetUserByApiKey(apiKey) ==
    IF apiKey \in DOMAIN Users
    THEN [err |-> Nil, user |-> Users[apiKey]]
    ELSE [err |-> "user not found", user |-> ""]

\* domain.WorkspaceUsecase.EnsureWorkspace: returns the workspace of
\* (userID, root), creating it when there is none
EnsureWorkspace(userID, root, fault) ==
    IF fault
    THEN [err |-> "db_error", id |-> "", workspaces |-> workspaces]
    ELSE [err |-> Nil, id |-> WorkspaceIdOf(userID, root),
          workspaces |-> workspaces \cup {WorkspaceIdOf(userID, root)}]

FilesAt(workspaceID, path) == {f \in files : f.ws = workspaceID /\ f.path = path}

\* domain.WorkspaceFileUsecase.GetByPath
GetByPath(userID, workspaceID, path, fault) ==
    IF fault THEN [err |-> "db_error", file |-> NoFile]
    ELSE IF FilesAt(workspaceID, path) = {} THEN [err |-> "not_found", file |-> NoFile]
    ELSE [err |-> Nil, file |-> CHOOSE f \in FilesAt(workspaceID, path) : TRUE]

\* domain.WorkspaceFileUsecase.Create: one live record per (workspace, path)
Create(req, fault) ==
    IF fault THEN [err |-> "db_error", files |-> files, nextId |-> nextId]
    ELSE IF FilesAt(req.WorkspaceID, req.Path) # {}
    THEN [err |-> "duplicate", files |-> files, nextId |-> nextId]
    ELSE [err |-> Nil,
          files |-> files \cup {[id |-> nextId, ws |-> req.WorkspaceID, path |-> req.Path,
                                 hash |-> req.Hash, content |-> req.Content]},
          nextId |-> nextId + 1]

\* domain.WorkspaceFileUsecase.Update: by record id
Update(req, fault) ==
    IF fault THEN [err |-> "db_error", files |-> files]
    ELSE IF \A f \in files : f.id # req.ID THEN [err |-> "not_found", files |-> files]
    ELSE [err |-> Nil,
          files |-> {IF f.id = req.ID
                     THEN [f EXCEPT !.hash = req.Hash, !.content = req.Content]
                     ELSE f : f \in files}]

\* domain.WorkspaceFileUsecase.Delete: by record id
Delete(id, fault) ==
    IF fault THEN [err |-> "db_error", files |-> files]
    ELSE IF \A f \in files : f.id # id THEN [err |-> "not_found", files |-> files]
    ELSE [err |-> Nil, files |-> {f \in files : f.id # id}]

\* domain.WorkspaceFileUsecase.GetAndSave
GetAndSave(req, fault) == IF fault THEN [err |-> "index_error"] ELSE [err |-> Nil]

\* db.IsNotFound
IsNotFound(err) == err = "not_found"

(* --------------------------- responses --------------------------------- *)
\* AckResponse
AckResponse(id, status, message) == [id |-> id, status |-> status, message |-> message]
\* map[string]interface{}{"status": "error", "message": message}
ErrorMap(message) == [status |-> "error", message |-> message]

NoReply == [mode |-> "none", resp |-> [status |-> ""]]

\* sendErrorACK: replies through data.Ack without taking h.mu
sendErrorACK(hasAck, message) ==
    IF hasAck THEN [mode |-> "raw", resp |-> ErrorMap(<<message>>)] ELSE NoReply

\* sendACKWithLock: replies through data.Ack under h.mu
sendACKWithLock(hasAck, response) ==
    IF hasAck THEN [mode |-> "locked", resp |-> response] ELSE NoReply

(* ------------------------- file:update handler ------------------------- *)
\* json.Unmarshal([]byte(data), &updateData)
Unmarshal(data) == IF data.parse = "ok" THEN Nil ELSE data.parse

\* handleFileUpdate as it would be if the goroutine were started before the parse
handleFileUpdateSpawnsFirst(data) ==
    IF Unmarshal(data) # Nil
    THEN [spawn |-> TRUE, upd |-> data.fields, response |-> ErrorMap(<<"Invalid data format">>)]
    ELSE [spawn |-> TRUE, upd |-> data.fields,
          response |-> AckResponse(data.fields.ID, "received",
                                   <<"File update received, processing...">>)]

\* handleFileUpdate: the string path
handleFileUpdate(data) ==
    IF Unmarshal(data) # Nil
    THEN [spawn |-> FALSE, upd |-> NoUpdate, response |-> ErrorMap(<<"Invalid data format">>)]
    ELSE [spawn |-> TRUE, upd |-> data.fields,
          response |-> AckResponse(data.fields.ID, "received",
                                   <<"File update received, processing...">>)]

\* handleFileUpdateFromObject: the map path, which cannot fail; it copies
\* every field of FileUpdateData but previousHash
handleFileUpdateFromObject(data) ==
    [spawn |-> TRUE, upd |-> [data.fields EXCEPT !.PreviousHash = ""],
     response |-> AckResponse(data.fields.ID, "received",
                              <<"File update received, processing...">>)]

\* processFileUpdateData as it would be if its default case used the message
\* of the string path
processFileUpdateDataShortMessage(data, hasAck) ==
    CASE data.type = "map" ->
            LET r == handleFileUpdateFromObject(data)
            IN  [spawn |-> r.spawn, upd |-> r.upd, reply |-> sendACKWithLock(hasAck, r.response)]
      [] data.type = "string" ->
            LET r == handleFileUpdate(data)
            IN  [spawn |-> r.spawn, upd |-> r.upd, reply |-> sendACKWithLock(hasAck, r.response)]
      [] OTHER ->
            [spawn |-> FALSE, upd |-> NoUpdate,
             reply |-> sendErrorACK(hasAck, "Invalid data format")]

\* processFileUpdateData: the type switch on data.Data[0]
processFileUpdateData(data, hasAck) ==
    CASE data.type = "map" ->
            LET r == handleFileUpdateFromObject(data)
            IN  [spawn |-> r.spawn, upd |-> r.upd, reply |-> sendACKWithLock(hasAck, r.response)]
      [] data.type = "string" ->
            LET r == handleFileUpdate(data)
            IN  [spawn |-> r.spawn, upd |-> r.upd, reply |-> sendACKWithLock(hasAck, r.response)]
      [] OTHER ->
            [spawn |-> FALSE, upd |-> NoUpdate,
             reply |-> sendErrorACK(hasAck, "Invalid data format - expected string or object")]

\* the "file:update" callback of registerFileUpdateHandler
onFileUpdate(data, hasAck) ==
    IF data.type = "none"
    THEN [spawn |-> FALSE, upd |-> NoUpdate, reply |-> sendErrorACK(hasAck, "No data provided")]
    ELSE processFileUpdateData(data, hasAck)

(* ---------------------- processFileUpdateAsync ------------------------- *)
\* the goroutine's stack: its arguments, its locals, where it is, and the
\* calls it has made to the collaborators so far
NewTask(socket, upd) ==
    [socket |-> socket, upd |-> upd, pc |-> "identity", userID |-> "",
     workspaceID |-> "", file |-> NoFile, finalStatus |-> "", message |-> <<>>,
     calls |-> <<>>]

Done == [NewTask(0, NoUpdate) EXCEPT !.pc = "done"]

\* a call as the collaborator saw it: its arguments (for GetByPath, the record
\* it returned) and the error it returned
Call(op, id, hash, content, err) ==
    [op |-> op, id |-> id, hash |-> hash, content |-> content, err |-> err]
Logged(t, call) == [t EXCEPT !.calls = Append(@, call)]

\* finalStatus and message are set and control reaches sendFinalResult
Finish(t, status, message) ==
    [t EXCEPT !.finalStatus = status, !.message = message, !.pc = "send"]

\* the identity step as it would be if the error were ignored
afterIdentityIgnoresError(t, res) == [t EXCEPT !.userID = res.user, !.pc = "workspace"]

\* after h.userService.GetUserByApiKey
afterIdentity(t, res) ==
    IF res.err # Nil
    THEN Finish(t, "error", <<"Invalid API key: ", res.err>>)
    ELSE [t EXCEPT !.userID = res.user, !.pc = "workspace"]

\* ensureWorkspace as it would be without the test for an empty path
ensureWorkspaceCallsAlways(workspacePath) == TRUE

\* ensureWorkspace asks the workspace usecase only for a non-empty path
ensureWorkspaceCalls(workspacePath) == workspacePath # ""

\* what ensureWorkspace returns, given what EnsureWorkspace returned
ensureWorkspace(workspacePath, res) ==
    IF workspacePath # ""
    THEN IF res.err # Nil
         THEN [id |-> "", err |-> <<"failed to ensure workspace: ", res.err>>]
         ELSE [id |-> res.id, err |-> <<>>]
    ELSE [id |-> "", err |-> <<"no workspace path provided">>]

\* the switch as it would be if its default were the add case
dispatchDefaultsToAdd(t) == [t EXCEPT !.pc = "lookup"]

\* switch updateData.Event: which case is entered
dispatch(t) ==
    IF t.upd.Event \in KnownEvents
    THEN [t EXCEPT !.pc = "lookup"]
    ELSE Finish(t, "error", <<"Unknown event type: ", t.upd.Event>>)

\* after h.ensureWorkspace
afterWorkspace(t, r) ==
    IF r.err # <<>>
    THEN Finish(t, "error", <<"Failed to ensure workspace: ">> \o r.err)
    ELSE dispatch([t EXCEPT !.workspaceID = r.id])

\* the add case as it would be without the hash comparison
afterLookupAddedAlwaysUpdates(t, res) ==
    IF res.err # Nil
    THEN IF IsNotFound(res.err)
         THEN [t EXCEPT !.pc = "create"]
         ELSE Finish(t, "error", <<"Error checking for existing file: ", res.err>>)
    ELSE [t EXCEPT !.file = res.file, !.pc = "update"]

\* the add case as it would be if it compared the content as well as the hash
afterLookupAddedComparesContent(t, res) ==
    IF res.err # Nil
    THEN IF IsNotFound(res.err)
         THEN [t EXCEPT !.pc = "create"]
         ELSE Finish(t, "error", <<"Error checking for existing file: ", res.err>>)
    ELSE IF res.file.hash = t.upd.Hash /\ res.file.content = t.upd.Content
         THEN Finish(t, "success", <<"File is already up-to-date">>)
         ELSE [t EXCEPT !.file = res.file, !.pc = "update"]

\* case "initial_scan", "added": after GetByPath
afterLookupAdded(t, res) ==
    IF res.err # Nil
    THEN IF IsNotFound(res.err)
         THEN [t EXCEPT !.pc = "create"]
         ELSE Finish(t, "error", <<"Error checking for existing file: ", res.err>>)
    ELSE IF res.file.hash = t.upd.Hash
         THEN Finish(t, "success", <<"File is already up-to-date">>)
         ELSE [t EXCEPT !.file = res.file, !.pc = "update"]

\* the modified case as it would be with the add case's create-if-missing
afterLookupModifiedCreates(t, res) ==
    IF res.err # Nil
    THEN IF IsNotFound(res.err)
         THEN [t EXCEPT !.pc = "create"]
         ELSE Finish(t, "error", <<"Failed to find file for update: ", res.err>>)
    ELSE [t EXCEPT !.file = res.file, !.pc = "update"]

\* case "modified": after GetByPath
afterLookupModified(t, res) ==
    IF res.err # Nil
    THEN Finish(t, "error", <<"Failed to find file for update: ", res.err>>)
    ELSE [t EXCEPT !.file = res.file, !.pc = "update"]

\* the deleted case as it would be if it went on to Delete whatever GetByPath returned
afterLookupDeletedAlwaysDeletes(t, res) == [t EXCEPT !.file = res.file, !.pc = "delete"]

\* case "deleted": after GetByPath
afterLookupDeleted(t, res) ==
    IF res.err # Nil
    THEN Finish(t, "error", <<"Failed to find file for deletion: ", res.err>>)
    ELSE [t EXCEPT !.file = res.file, !.pc = "delete"]

afterLookup(t, res) ==
    CASE t.upd.Event = "modified" -> afterLookupModified(t, res)
      [] t.upd.Event = "deleted" -> afterLookupDeleted(t, res)
      [] OTHER -> afterLookupAdded(t, res)

\* domain.CreateWorkspaceFileReq built from the notification
createReq(t) ==
    [Path |-> t.upd.FilePath, Content |-> t.upd.Content, Hash |-> t.upd.Hash,
     UserID |-> t.userID, WorkspaceID |-> t.workspaceID]

\* the update request as it would be if it kept the stored hash
updateReqKeepsHash(t) == [ID |-> t.file.id, Content |-> t.upd.Content, Hash |-> t.file.hash]

\* domain.UpdateWorkspaceFileReq built from the looked-up record and the notification
updateReq(t) == [ID |-> t.file.id, Content |-> t.upd.Content, Hash |-> t.upd.Hash]

\* the create branch as it would be if the error of Create were only logged
afterCreateIgnoresError(t, res) == [t EXCEPT !.pc = "index"]

\* after h.workspaceService.Create
afterCreate(t, res) ==
    IF res.err # Nil
    THEN Finish(t, "error", <<"Failed to create file: ", res.err>>)
    ELSE [t EXCEPT !.pc = "index"]

\* the update step as it would be if the add case indexed what it updated
afterUpdateAlwaysIndexes(t, res) ==
    IF res.err # Nil
    THEN Finish(t, "error", <<(IF t.upd.Event = "modified" THEN "Failed to update file: "
                               ELSE "Failed to update existing file: "), res.err>>)
    ELSE [t EXCEPT !.finalStatus = "success",
                   !.message = <<"File updated successfully">>, !.pc = "index"]

\* after h.workspaceService.Update, in either case of the switch
afterUpdate(t, res) ==
    IF t.upd.Event = "modified"
    THEN IF res.err # Nil
         THEN Finish(t, "error", <<"Failed to update file: ", res.err>>)
         ELSE [t EXCEPT !.finalStatus = "success",
                        !.message = <<"File updated successfully">>, !.pc = "index"]
    ELSE IF res.err # Nil
         THEN Finish(t, "error", <<"Failed to update existing file: ", res.err>>)
         ELSE Finish(t, "success", <<"File updated successfully">>)

\* the deleted case as it would be if a failed Delete returned at once
afterDeleteReturnsEarly(t, res) ==
    IF res.err # Nil
    THEN [t EXCEPT !.pc = "done"]
    ELSE Finish(t, "success", <<"File deleted successfully">>)

\* after h.workspaceService.Delete
afterDelete(t, res) ==
    IF res.err # Nil
    THEN Finish(t, "error", <<"Failed to delete file: ", res.err>>)
    ELSE Finish(t, "success", <<"File deleted successfully">>)

\* the indexing step as it would be if its error decided the outcome
afterIndexPropagates(t, res) ==
    IF res.err # Nil
    THEN Finish(t, "error", <<"Failed to index file: ", res.err>>)
    ELSE IF t.upd.Event = "modified"
         THEN Finish(t, t.finalStatus, t.message)
         ELSE Finish(t, "success", <<"File created successfully">>)

\* after h.workspaceService.GetAndSave: its error is only logged
afterIndex(t, res) ==
    IF t.upd.Event = "modified"
    THEN Finish(t, t.finalStatus, t.message)
    ELSE Finish(t, "success", <<"File created successfully">>)

\* sendFinalResult as it would be if the handler kept one socket for all
finalSocketFirst(t) == 1

\* sendFinalResult: the message and the socket it is emitted on
finalResponse(t) ==
    [id |-> t.upd.ID, status |-> t.finalStatus, message |-> t.message,
     file |-> t.upd.FilePath]
finalSocket(t) == t.socket

(* ----------------------- liveness handlers ----------------------------- *)
\* handleHeartbeat
handleHeartbeat(data) ==
    IF Unmarshal(data) # Nil
    THEN ErrorMap(<<"Invalid heartbeat data">>)
    ELSE [status |-> "ok"]

\* the "heartbeat" callback: every reply goes through data.Ack without h.mu
onHeartbeat(data, hasAck) ==
    IF data.type = "none" THEN sendErrorACK(hasAck, "No heartbeat data")
    ELSE IF data.type = "string" /\ hasAck
         THEN [mode |-> "raw", resp |-> handleHeartbeat(data)]
         ELSE NoReply

\* the "workspace:stats" callback
onWorkspaceStats(hasAck) ==
    IF hasAck
    THEN [mode |-> "raw",
          resp |-> [status |-> "not_implemented",
                    message |-> <<"Workspace stats functionality is not available.">>]]
    ELSE NoReply

\* the "test:ping" callback and handleTestPing: the pong is emitted under h.mu
onTestPing(data) ==
    IF data.type = "string" /\ Unmarshal(data) = Nil
    THEN [mode |-> "emit", resp |-> [status |-> "ok"]]
    ELSE NoReply

(* ------------------------------ actions -------------------------------- *)
Emitted(ev, resp, n) == [ev |-> ev, resp |-> resp, n |-> n]

\* the record of an arrival: kept for the properties, never read by the handler
Arrival(c, name, shape, hasAck, file) ==
    [conn |-> c, name |-> name, shape |-> shape, ack |-> hasAck, file |-> file]
\* what a payload is to its handler: absent, not a string or a map, a string
\* json.Unmarshal rejects, or an object
Shape(data) ==
    CASE data.type = "map" -> "object"
      [] data.type = "string" /\ data.parse = "ok" -> "object"
      [] data.type = "string" -> data.parse
      [] OTHER -> data.type

InitialFiles ==
    {{}, {[id |-> 1, ws |-> "w1", path |-> "p", hash |-> "h1", content |-> "c1"]}}

\* the server is constructed; the clients in cs are about to connect
InitWith(cs, load) ==
    /\ workload = load
    /\ handler = [c \in Conns |-> IF c \in cs THEN New ELSE Absent]
    /\ tasks = [n \in EventNos |-> [Done EXCEPT !.pc = "none"]]
    /\ mu = {}
    /\ writers = [c \in Conns |-> {}]
    /\ out = [c \in Conns |-> <<>>]
    /\ nev = 0
    /\ delivered = [n \in EventNos |-> Arrival(0, "", "", FALSE, "")]
    /\ files \in InitialFiles
    /\ workspaces = {f.ws : f \in files}
    /\ nextId = 2

\* one client that sends every kind of notification
Init == InitWith({1}, "all")
\* every client, each sending the sparse workload
InitConns == InitWith(Conns, "sparse")

\* one client sending the hash workload
InitHash == InitWith({1}, "hash")

\* one client sending the sequential workload to a store that never fails
InitSeq == InitWith({1}, "seq")

\* handleConnection: sendServerStatus starts writing, outside h.mu
Connect(c) ==
    /\ handler[c].pc = "new"
    /\ handler' = [handler EXCEPT ![c] =
            [pc |-> "status", ev |-> "server:status",
             resp |-> [status |-> "ready",
                       message |-> <<"Server is ready to receive updates">>],
             n |-> 0]]
    /\ writers' = [writers EXCEPT ![c] = @ \cup {H(c)}]
    /\ UNCHANGED <<workload, tasks, mu, out, nev, delivered, store>>

\* handleConnection: the status is written and the event handlers are registered
Connected(c) ==
    /\ handler[c].pc = "status"
    /\ out' = [out EXCEPT ![c] = Append(@, Emitted(handler[c].ev, handler[c].resp, 0))]
    /\ writers' = [writers EXCEPT ![c] = @ \ {H(c)}]
    /\ handler' = [handler EXCEPT ![c] = Idle]
    /\ UNCHANGED <<workload, tasks, mu, nev, delivered, store>>

\* the callback has computed its reply: it starts writing it, waits for h.mu, or returns
Reply(c, reply, n, name, data, hasAck) ==
    /\ nev' = n
    /\ delivered' = [delivered EXCEPT ![n] =
           Arrival(c, name, Shape(data), hasAck,
                   IF "fields" \in DOMAIN data THEN data.fields.FilePath ELSE "")]
    /\ CASE reply.mode = "raw" ->
              /\ handler' = [handler EXCEPT ![c] =
                     [pc |-> "raw", ev |-> "ack", resp |-> reply.resp, n |-> n]]
              /\ writers' = [writers EXCEPT ![c] = @ \cup {H(c)}]
         [] reply.mode = "locked" ->
              /\ handler' = [handler EXCEPT ![c] =
                     [pc |-> "lock", ev |-> "ack", resp |-> reply.resp, n |-> n]]
              /\ UNCHANGED writers
         [] reply.mode = "emit" ->
              /\ handler' = [handler EXCEPT ![c] =
                     [pc |-> "lock", ev |-> "test:pong", resp |-> reply.resp, n |-> n]]
              /\ UNCHANGED writers
         [] OTHER -> UNCHANGED <<workload, handler, writers>>

\* when a client sends a file:update: at any time, except that the client of
\* the sequential workload waits for the final result of the one before
ClientMaySend ==
    workload = "seq" => \A m \in EventNos : tasks[m].pc \in {"none", "done"}

\* a file:update event arrives: decode, spawn the goroutine, go on to the ack
ReceiveFileUpdate(c) ==
    /\ handler[c].pc = "idle"
    /\ nev < MaxEvents
    /\ ClientMaySend
    /\ \E hasAck \in BOOLEAN, data \in FileUpdatePayloads(nev + 1, workload) :
          LET r == onFileUpdate(data, hasAck)
          IN  /\ tasks' = IF r.spawn
                          THEN [tasks EXCEPT ![nev + 1] = NewTask(c, r.upd)]
                          ELSE tasks
              /\ Reply(c, r.reply, nev + 1, "file:update", data, hasAck)
    /\ UNCHANGED <<workload, mu, out, store>>

ReceiveHeartbeat(c) ==
    /\ handler[c].pc = "idle"
    /\ nev < MaxEvents
    /\ \E hasAck \in BOOLEAN, data \in TextPayloads :
          Reply(c, onHeartbeat(data, hasAck), nev + 1, "heartbeat", data, hasAck)
    /\ UNCHANGED <<workload, tasks, mu, out, store>>

ReceiveWorkspaceStats(c) ==
    /\ handler[c].pc = "idle"
    /\ nev < MaxEvents
    /\ \E hasAck \in BOOLEAN :
          Reply(c, onWorkspaceStats(hasAck), nev + 1, "workspace:stats",
                [type |-> "none", parse |-> ""], hasAck)
    /\ UNCHANGED <<workload, tasks, mu, out, store>>

ReceiveTestPing(c) ==
    /\ handler[c].pc = "idle"
    /\ nev < MaxEvents
    /\ \E data \in TextPayloads : Reply(c, onTestPing(data), nev + 1, "test:ping", data, FALSE)
    /\ UNCHANGED <<workload, tasks, mu, out, store>>

\* data.Ack outside h.mu returns: sendErrorACK, heartbeat and stats replies
RawAckDone(c) ==
    /\ handler[c].pc = "raw"
    /\ out' = [out EXCEPT ![c] = Append(@, Emitted(handler[c].ev, handler[c].resp, handler[c].n))]
    /\ writers' = [writers EXCEPT ![c] = @ \ {H(c)}]
    /\ handler' = [handler EXCEPT ![c] = Idle]
    /\ UNCHANGED <<workload, tasks, mu, nev, delivered, store>>

\* sendACKWithLock as it would be if the reconciliation ran on the handler's
\* own thread: the reply is written once no goroutine is left
HandlerLockAfterTasks(c) ==
    /\ handler[c].pc = "lock"
    /\ mu = {}
    /\ \A n \in EventNos : tasks[n].pc \in {"none", "done"}
    /\ mu' = {H(c)}
    /\ writers' = [writers EXCEPT ![c] = @ \cup {H(c)}]
    /\ handler' = [handler EXCEPT ![c].pc = "locked"]
    /\ UNCHANGED <<workload, tasks, out, nev, delivered, store>>

\* sendACKWithLock / handleTestPing: h.mu.Lock() succeeds and the write starts
HandlerLock(c) ==
    /\ handler[c].pc = "lock"
    /\ mu = {}
    /\ mu' = {H(c)}
    /\ writers' = [writers EXCEPT ![c] = @ \cup {H(c)}]
    /\ handler' = [handler EXCEPT ![c].pc = "locked"]
    /\ UNCHANGED <<workload, tasks, out, nev, delivered, store>>

\* sendACKWithLock / handleTestPing: the write returns and h.mu.Unlock()
HandlerUnlock(c) ==
    /\ handler[c].pc = "locked"
    /\ out' = [out EXCEPT ![c] = Append(@, Emitted(handler[c].ev, handler[c].resp, handler[c].n))]
    /\ writers' = [writers EXCEPT ![c] = @ \ {H(c)}]
    /\ mu' = mu \ {H(c)}
    /\ handler' = [handler EXCEPT ![c] = Idle]
    /\ UNCHANGED <<workload, tasks, nev, delivered, store>>

\* the goroutine calls h.userService.GetUserByApiKey
TaskIdentity(n) ==
    /\ tasks[n].pc = "identity"
    /\ LET t == tasks[n]
           res == GetUserByApiKey(t.upd.ApiKey)
       IN  tasks' = [tasks EXCEPT ![n] =
               afterIdentity(Logged(t, Call("GetUserByApiKey", 0, "", "", res.err)), res)]
    /\ UNCHANGED <<workload, handler, mu, writers, out, nev, delivered, store>>

\* the goroutine calls h.ensureWorkspace and enters the switch
TaskWorkspace(n) ==
    /\ tasks[n].pc = "workspace"
    /\ LET t == tasks[n]
       IN  IF ensureWorkspaceCalls(t.upd.WorkspacePath)
           THEN \E fault \in FaultChoices :
                  LET res == EnsureWorkspace(t.userID, t.upd.WorkspacePath, fault)
                  IN  /\ tasks' = [tasks EXCEPT ![n] =
                             afterWorkspace(Logged(t, Call("EnsureWorkspace", 0, "", "", res.err)),
                                            ensureWorkspace(t.upd.WorkspacePath, res))]
                      /\ workspaces' = res.workspaces
           ELSE /\ tasks' = [tasks EXCEPT ![n] =
                       afterWorkspace(t, ensureWorkspace(t.upd.WorkspacePath,
                                                         [err |-> Nil, id |-> ""]))]
                /\ UNCHANGED workspaces
    /\ UNCHANGED <<workload, handler, mu, writers, out, nev, delivered, files, nextId>>

\* the goroutine calls h.workspaceService.GetByPath
TaskLookup(n) ==
    /\ tasks[n].pc = "lookup"
    /\ \E fault \in FaultChoices :
          LET t == tasks[n]
              res == GetByPath(t.userID, t.workspaceID, t.upd.FilePath, fault)
          IN  /\ tasks' = [tasks EXCEPT ![n] =
                     afterLookup(Logged(t, Call("GetByPath", res.file.id, res.file.hash,
                                                 res.file.content, res.err)), res)]
    /\ UNCHANGED <<workload, handler, mu, writers, out, nev, delivered, store>>

\* the goroutine calls h.workspaceService.Create
TaskCreate(n) ==
    /\ tasks[n].pc = "create"
    /\ \E fault \in FaultChoices :
          LET t == tasks[n]
              req == createReq(t)
              res == Create(req, fault)
          IN  /\ tasks' = [tasks EXCEPT ![n] =
                     afterCreate(Logged(t, Call("Create", 0, req.Hash, req.Content, res.err)), res)]
              /\ files' = res.files
              /\ nextId' = res.nextId
    /\ UNCHANGED <<workload, handler, mu, writers, out, nev, delivered, workspaces>>

\* the goroutine calls h.workspaceService.Update
TaskUpdate(n) ==
    /\ tasks[n].pc = "update"
    /\ \E fault \in FaultChoices :
          LET t == tasks[n]
              req == updateReq(t)
              res == Update(req, fault)
          IN  /\ tasks' = [tasks EXCEPT ![n] =
                     afterUpdate(Logged(t, Call("Update", req.ID, req.Hash, req.Content, res.err)),
                                 res)]
              /\ files' = res.files
    /\ UNCHANGED <<workload, handler, mu, writers, out, nev, delivered, workspaces, nextId>>

\* the goroutine calls h.workspaceService.Delete
TaskDelete(n) ==
    /\ tasks[n].pc = "delete"
    /\ \E fault \in FaultChoices :
          LET t == tasks[n]
              res == Delete(t.file.id, fault)
          IN  /\ tasks' = [tasks EXCEPT ![n] =
                     afterDelete(Logged(t, Call("Delete", t.file.id, "", "", res.err)), res)]
              /\ files' = res.files
    /\ UNCHANGED <<workload, handler, mu, writers, out, nev, delivered, workspaces, nextId>>

\* the goroutine calls h.workspaceService.GetAndSave
TaskIndex(n) ==
    /\ tasks[n].pc = "index"
    /\ \E fault \in FaultChoices :
          LET t == tasks[n]
              res == GetAndSave([Path |-> t.upd.FilePath, Content |-> t.upd.Content], fault)
          IN  /\ tasks' = [tasks EXCEPT ![n] =
                     afterIndex(Logged(t, Call("GetAndSave", 0, "", t.upd.Content, res.err)), res)]
    /\ UNCHANGED <<workload, handler, mu, writers, out, nev, delivered, store>>

\* sendFinalResult: h.mu.Lock() succeeds and socket.Emit starts
TaskLock(n) ==
    /\ tasks[n].pc = "send"
    /\ mu = {}
    /\ mu' = {T(n)}
    /\ writers' = [writers EXCEPT ![finalSocket(tasks[n])] = @ \cup {T(n)}]
    /\ tasks' = [tasks EXCEPT ![n].pc = "sending"]
    /\ UNCHANGED <<workload, handler, out, nev, delivered, store>>

\* sendFinalResult as it would be if it returned without h.mu.Unlock()
TaskUnlockKeepsLock(n) ==
    /\ tasks[n].pc = "sending"
    /\ LET t == tasks[n]
       IN  /\ out' = [out EXCEPT ![finalSocket(t)] =
                  Append(@, Emitted("file:update:ack", finalResponse(t), n))]
           /\ writers' = [writers EXCEPT ![finalSocket(t)] = @ \ {T(n)}]
    /\ tasks' = [tasks EXCEPT ![n] = Done]
    /\ UNCHANGED <<workload, handler, mu, nev, delivered, store>>

\* sendFinalResult: socket.Emit returns, h.mu.Unlock(), and the goroutine ends
TaskUnlock(n) ==
    /\ tasks[n].pc = "sending"
    /\ LET t == tasks[n]
       IN  /\ out' = [out EXCEPT ![finalSocket(t)] =
                  Append(@, Emitted("file:update:ack", finalResponse(t), n))]
           /\ writers' = [writers EXCEPT ![finalSocket(t)] = @ \ {T(n)}]
    /\ mu' = mu \ {T(n)}
    /\ tasks' = [tasks EXCEPT ![n] = Done]
    /\ UNCHANGED <<workload, handler, nev, delivered, store>>

Next ==
    \/ \E c \in Conns : Connect(c)
    \/ \E c \in Conns : Connected(c)
    \/ \E c \in Conns : ReceiveFileUpdate(c)
    \/ \E c \in Conns : ReceiveHeartbeat(c)
    \/ \E c \in Conns : ReceiveWorkspaceStats(c)
    \/ \E c \in Conns : ReceiveTestPing(c)
    \/ \E c \in Conns : RawAckDone(c)
    \/ \E c \in Conns : HandlerLock(c)
    \/ \E c \in Conns : HandlerUnlock(c)
    \/ \E n \in EventNos : TaskIdentity(n)
    \/ \E n \in EventNos : TaskWorkspace(n)
    \/ \E n \in EventNos : TaskLookup(n)
    \/ \E n \in EventNos : TaskCreate(n)
    \/ \E n \in EventNos : TaskUpdate(n)
    \/ \E n \in EventNos : TaskDelete(n)
    \/ \E n \in EventNos : TaskIndex(n)
    \/ \E n \in EventNos : TaskLock(n)
    \/ \E n \in EventNos : TaskUnlock(n)

Spec == Init /\ [][Next]_vars
ConnsSpec == InitConns /\ [][Next]_vars
HashSpec == InitHash /\ [][Next]_vars
SeqSpec == InitSeq /\ [][Next]_vars

\* what the Go scheduler guarantees: a goroutine that can run does run, and
\* a write that has started returns; clients owe the server nothing
TaskStep(n) ==
    \/ TaskIdentity(n) \/ TaskWorkspace(n) \/ TaskLookup(n) \/ TaskCreate(n)
    \/ TaskUpdate(n) \/ TaskDelete(n) \/ TaskIndex(n) \/ TaskLock(n) \/ TaskUnlock(n)
HandlerStep(c) == Connected(c) \/ RawAckDone(c) \/ HandlerLock(c) \/ HandlerUnlock(c)
Fairness ==
    /\ \A n \in EventNos : WF_vars(TaskStep(n))
    /\ \A c \in Conns : WF_vars(HandlerStep(c))
\* one client sending the narrow workload, under fair scheduling
InitFair == InitWith({1}, "narrow")
FairSpec == InitFair /\ [][Next]_vars /\ Fairness

(* ------------------------ reading the state ---------------------------- *)
\* the goroutines that exist, and those that have reached sendFinalResult
Running == {n \in EventNos : tasks[n].pc \notin {"none", "done"}}
Decided == {n \in EventNos : tasks[n].pc \in {"send", "sending"}}
Spawned == {n \in EventNos : tasks[n].pc # "none"}

Ops(t) == {t.calls[i].op : i \in DOMAIN t.calls}
CallsOf(t, op) == {i \in DOMAIN t.calls : t.calls[i].op = op}
Mutations == {"Create", "Update", "Delete"}
FileStoreOps == Mutations \cup {"GetByPath", "GetAndSave"}
\* what GetByPath returned to the goroutine, once it has returned
Looked(t) == CallsOf(t, "GetByPath") # {}
Lookup(t) == t.calls[CHOOSE i \in CallsOf(t, "GetByPath") : TRUE]
Resolved(t) == \E i \in CallsOf(t, "GetUserByApiKey") : t.calls[i].err = Nil

\* positions in a connection's log of the replies to event n and of its final results
Replies(c, n) == {i \in DOMAIN out[c] : out[c][i].ev = "ack" /\ out[c][i].n = n}
Finals(c, n) == {i \in DOMAIN out[c] : out[c][i].ev = "file:update:ack" /\ out[c][i].n = n}
AllFinals(n) == UNION {{<<c, i>> : i \in Finals(c, n)} : c \in Conns}
\* the callback of event n still owes its reply
Owed(c, n) == handler[c].n = n /\ handler[c].pc \in {"lock", "locked", "raw"}

(* ------------------------------ claims --------------------------------- *)
\* C1 (as claimed): for every decoded file:update that asked for a reply, the
\* connection gets exactly one reply, with status "received", and the final
\* result with the same id comes after that reply, never before it, and at
\* most once.
C1_ReceivedThenFinal ==
    \A n \in EventNos : \A c \in Conns :
        (delivered[n].name = "file:update" /\ delivered[n].shape = "object"
         /\ delivered[n].ack)
        => /\ Cardinality(Finals(c, n)) <= 1
           /\ Cardinality(Replies(c, n)) = (IF Owed(delivered[n].conn, n) \/ c # delivered[n].conn
                                            THEN 0 ELSE 1)
           /\ \A i \in Replies(c, n) : out[c][i].resp.status = "received"
           /\ \A i \in Finals(c, n) :
                 \E j \in Replies(c, n) : j < i /\ out[c][j].resp.id = out[c][i].resp.id

\* C2, in every state: a goroutine that has returned has emitted exactly one
\* final result and one that has not returned has emitted none; every final
\* result has status success or error and the id and path of its notification.
C2_OneFinal ==
    \A n \in EventNos :
        /\ Cardinality(AllFinals(n)) = (IF tasks[n].pc = "done" THEN 1 ELSE 0)
        /\ \A x \in AllFinals(n) :
              LET r == out[x[1]][x[2]].resp
              IN  /\ r.status \in {"success", "error"}
                  /\ r.id = n
                  /\ r.file = delivered[n].file
\* C2, over time: every spawned goroutine returns.
C2_TaskEnds == \A n \in EventNos : (tasks[n].pc # "none") ~> (tasks[n].pc = "done")
\* C2: every spawned reconciliation task eventually reaches its end and
\* emits exactly one final result, status success or error, with the
\* notification's id and filePath, on every branch.
C2_EveryTaskReportsOnce == []C2_OneFinal /\ C2_TaskEnds
\* C2 happens: two goroutines have returned, one with success and one with error.
C2_Witness ==
    \E n1, n2 \in EventNos :
        /\ tasks[n1].pc = "done" /\ tasks[n2].pc = "done"
        /\ \E x \in AllFinals(n1) : out[x[1]][x[2]].resp.status = "success"
        /\ \E x \in AllFinals(n2) : out[x[1]][x[2]].resp.status = "error"

\* C3 (as claimed): no two writes to one connection are in progress at once.
C3_WritesSerialized == \A c \in Conns : Cardinality(writers[c]) <= 1

\* the goroutine's lookup found a record
Found(t) == Looked(t) /\ Lookup(t).err = Nil
AddEvent(t) == t.upd.Event \in {"initial_scan", "added"}

\* C4: an initial_scan or added notification whose lookup finds a record with
\* the notification's hash ends with success "File is already up-to-date" and
\* has issued no create, update or delete.
C4_Idempotent ==
    \A n \in Running :
        LET t == tasks[n]
        IN  (AddEvent(t) /\ Found(t) /\ Lookup(t).hash = t.upd.Hash)
            => /\ n \in Decided
               /\ t.finalStatus = "success"
               /\ t.message = <<"File is already up-to-date">>
               /\ Ops(t) \cap Mutations = {}
C4_Witness ==
    \E n \in Decided :
        /\ AddEvent(tasks[n]) /\ Found(tasks[n])
        /\ Lookup(tasks[n]).hash = tasks[n].upd.Hash
        /\ tasks[n].pc = "sending"


\* C5: an initial_scan or added notification whose lookup finds a record with
\* another hash calls Update once, on that record's id, with the
\* notification's content and hash, never calls Create, and ends with success
\* "File updated successfully" when Update succeeds.
C5_HashTriggeredUpdate ==
    \A n \in Running :
        LET t == tasks[n]
        IN  (AddEvent(t) /\ Found(t) /\ Lookup(t).hash # t.upd.Hash)
            => /\ "Create" \notin Ops(t)
               /\ \/ t.pc = "update" /\ "Update" \notin Ops(t)
                  \/ /\ n \in Decided
                     /\ Cardinality(CallsOf(t, "Update")) = 1
                     /\ \A i \in CallsOf(t, "Update") :
                           /\ t.calls[i].id = Lookup(t).id
                           /\ t.calls[i].hash = t.upd.Hash
                           /\ t.calls[i].content = t.upd.Content
                           /\ t.calls[i].err = Nil
                                => /\ t.finalStatus = "success"
                                   /\ t.message = <<"File updated successfully">>
                           /\ t.calls[i].err # Nil => t.finalStatus = "error"
C5_Witness ==
    \E n \in Decided :
        /\ AddEvent(tasks[n]) /\ Found(tasks[n])
        /\ Lookup(tasks[n]).hash # tasks[n].upd.Hash
        /\ \E i \in CallsOf(tasks[n], "Update") : tasks[n].calls[i].err = Nil
        /\ \E f \in files : f.id = Lookup(tasks[n]).id /\ f.hash = tasks[n].upd.Hash

\* C6: a modified notification whose lookup returns not-found or any other
\* error ends with status error and a message starting "Failed to find file
\* for update:", and has called neither Create nor Update.
C6_NoCreateOnModify ==
    \A n \in Running :
        LET t == tasks[n]
        IN  (t.upd.Event = "modified" /\ Looked(t) /\ Lookup(t).err # Nil)
            => /\ n \in Decided
               /\ t.finalStatus = "error"
               /\ t.message = <<"Failed to find file for update: ", Lookup(t).err>>
               /\ Ops(t) \cap Mutations = {}
C6_Witness ==
    \E n \in Decided :
        /\ tasks[n].upd.Event = "modified" /\ Looked(tasks[n])
        /\ Lookup(tasks[n]).err = "not_found"
        /\ files = {}

\* the goroutine's workspace was ensured
Ensured(t) == \E i \in CallsOf(t, "EnsureWorkspace") : t.calls[i].err = Nil

\* C7 (as claimed, for a notification whose credential resolves and that
\* names a workspace root): a notification with an unknown eventKind ends with
\* Failed("Unknown event type: <value>") and has made no store call: no
\* EnsureWorkspace, GetByPath, Create, Update or Delete.
C7_UnknownEventNoStoreCall ==
    \A n \in Decided :
        LET t == tasks[n]
        IN  (t.upd.Event \notin KnownEvents /\ Resolved(t) /\ t.upd.WorkspacePath # "")
            => /\ t.finalStatus = "error"
               /\ Ops(t) \cap (FileStoreOps \cup {"EnsureWorkspace"}) = {}
               /\ t.message = <<"Unknown event type: ", t.upd.Event>>
\* C7 (amended): a notification with an unknown eventKind ends with status
\* error and never reaches the file store (no GetByPath, Create, Update, Delete
\* or GetAndSave); the message is "Unknown event type: <value>" exactly when
\* its credential resolved and EnsureWorkspace, which is called before the
\* switch, succeeded.
C7_UnknownEventNoFileCall ==
    \A n \in Running :
        LET t == tasks[n]
        IN  t.upd.Event \notin KnownEvents
            => /\ Ops(t) \cap FileStoreOps = {}
               /\ n \in Decided
                    => /\ t.finalStatus = "error"
                       /\ (Resolved(t) /\ Ensured(t))
                            <=> t.message = <<"Unknown event type: ", t.upd.Event>>
C7_Witness ==
    \E n \in Decided :
        /\ tasks[n].upd.Event \notin KnownEvents
        /\ Ensured(tasks[n])
        /\ tasks[n].message = <<"Unknown event type: ", "renamed">>

\* C8: a notification with an empty workspaceRoot whose credential resolves
\* ends with status error and a message containing "no workspace path
\* provided", having called nothing but the identity resolver.
C8_MissingRoot ==
    \A n \in Running :
        LET t == tasks[n]
        IN  (t.upd.WorkspacePath = "" /\ Resolved(t))
            => /\ Ops(t) = {"GetUserByApiKey"}
               /\ t.pc \in {"workspace", "send", "sending"}
               /\ n \in Decided
                    => /\ t.finalStatus = "error"
                       /\ \E i \in DOMAIN t.message : t.message[i] = "no workspace path provided"
C8_Witness ==
    \E n \in Decided :
        /\ tasks[n].upd.WorkspacePath = "" /\ Resolved(tasks[n])
        /\ tasks[n].upd.Event = "added"
        /\ workspaces = {}


Malformed(n) == delivered[n].name = "file:update" /\ delivered[n].shape = "syntax_error"
InvalidDataFormat(r) == r.status = "error" /\ r.message = <<"Invalid data format">>

\* C9 (as claimed): a file:update whose payload is a string that is not JSON is
\* answered, once its callback has returned, by exactly one error reply
\* "Invalid data format", and it spawns no goroutine and gets no final result.
C9_MalformedAnswered ==
    \A n \in EventNos :
        (Malformed(n) /\ ~Owed(delivered[n].conn, n))
        => /\ Cardinality(Replies(delivered[n].conn, n)) = 1
           /\ tasks[n].pc = "none"
           /\ AllFinals(n) = {}
\* C9 (amended): a file:update whose payload is a string that is not JSON
\* spawns no goroutine and gets no final result; when the event carries an
\* acknowledgement callback it is answered by exactly one error reply
\* "Invalid data format", and when it carries none nothing is sent for it.
C9_MalformedRejected ==
    \A n \in EventNos :
        Malformed(n)
        => LET c == delivered[n].conn
           IN  /\ tasks[n].pc = "none"
               /\ AllFinals(n) = {}
               /\ \A i \in Replies(c, n) : InvalidDataFormat(out[c][i].resp)
               /\ Owed(c, n) => delivered[n].ack /\ InvalidDataFormat(handler[c].resp)
                                 /\ Replies(c, n) = {}
               /\ ~Owed(c, n) =>
                     Cardinality(Replies(c, n)) = (IF delivered[n].ack THEN 1 ELSE 0)
C9_Witness ==
    \E n \in EventNos :
        /\ Malformed(n) /\ delivered[n].ack
        /\ Replies(delivered[n].conn, n) # {}

\* C10: whatever a notification causes to be written, the reply and the final
\* result, is written to the connection that delivered it, finished or in
\* progress.
C10_Isolation ==
    \A c \in Conns :
        /\ \A i \in DOMAIN out[c] : out[c][i].n # 0 => delivered[out[c][i].n].conn = c
        /\ \A w \in writers[c] : w[1] = "task" => delivered[w[2]].conn = c
        /\ \A w \in writers[c] : w[1] = "handler" => w[2] = c
C10_Witness ==
    \E n1, n2 \in EventNos :
        /\ delivered[n1].conn # 0 /\ delivered[n2].conn # 0
        /\ delivered[n1].conn # delivered[n2].conn
        /\ Finals(delivered[n1].conn, n1) # {}
        /\ Replies(delivered[n1].conn, n1) # {}
        /\ tasks[n2].pc = "sending"

\* the goroutine is between two statements of the reconciliation, a store or
\* identity call ahead of it: it is not inside sendFinalResult's write
InCall(t) == t.pc \in {"identity", "workspace", "lookup", "create", "update", "delete", "index"}

\* C11: the connection's handler never waits on reconciliation.  Whatever
\* goroutines are suspended before a call to the identity resolver, the
\* workspace usecase or the file store, a handler that is idle can take the
\* next file:update, test:ping or heartbeat, and a handler that has a reply to
\* write can write it: it waits for nothing but another write under h.mu.
C11_HandlerNeverWaits ==
    \A c \in Conns :
        /\ (handler[c].pc = "idle" /\ nev < MaxEvents)
             => /\ ENABLED ReceiveFileUpdate(c)
                /\ ENABLED ReceiveTestPing(c)
                /\ ENABLED ReceiveHeartbeat(c)
        /\ handler[c].pc = "raw" => ENABLED RawAckDone(c)
        /\ handler[c].pc = "locked" => ENABLED HandlerUnlock(c)
        /\ (/\ handler[c].pc = "lock"
            /\ \A n \in EventNos : tasks[n].pc # "sending"
            /\ \A d \in Conns : handler[d].pc # "locked")
             => ENABLED HandlerLock(c)
\* C11 happens: with the goroutine of an earlier notification still before a
\* store call, the handler has written the reply to a later file:update and
\* is about to write the next.
C11_Witness ==
    \E c \in Conns : \E n1, n2 \in EventNos :
        /\ n1 < n2
        /\ InCall(tasks[n1]) /\ tasks[n1].pc = "lookup"
        /\ delivered[n2].conn = c /\ delivered[n2].name = "file:update"
        /\ handler[c].pc = "lock" /\ handler[c].n = n2
        /\ Replies(c, n1) # {}

\* the identity resolver refused the goroutine's credential
Unresolved(t) == \E i \in CallsOf(t, "GetUserByApiKey") : t.calls[i].err # Nil

\* C12: identity is resolved first.  A goroutine whose credential the identity
\* resolver refuses has called nothing else (no EnsureWorkspace, no file
\* store), goes straight to its final result, status error with a message
\* starting "Invalid API key: ", whatever the event kind and the root; the
\* reply to the event itself, written or still owed, has status "received".
C12_IdentityFirst ==
    \A n \in Running :
        LET t == tasks[n]
            c == delivered[n].conn
        IN  Unresolved(t)
            => /\ Ops(t) = {"GetUserByApiKey"}
               /\ n \in Decided
               /\ t.finalStatus = "error"
               /\ t.message[1] = "Invalid API key: " /\ Len(t.message) = 2
               /\ AllFinals(n) = {}
               /\ \A i \in Replies(c, n) : out[c][i].resp.status = "received"
               /\ Owed(c, n) => handler[c].resp.status = "received"
               /\ delivered[n].ack => (Owed(c, n) \/ Replies(c, n) # {})
\* C12 happens: a deleted notification with a refused credential and a
\* workspace root is writing its final result after the reply was written.
C12_Witness ==
    \E n \in Decided :
        /\ Unresolved(tasks[n])
        /\ tasks[n].upd.Event = "deleted" /\ tasks[n].upd.WorkspacePath # ""
        /\ tasks[n].pc = "sending"
        /\ Replies(delivered[n].conn, n) # {}

\* the message of notification n's final result, decided or already written
Reported(n) ==
    IF n \in Decided THEN tasks[n].message
    ELSE IF AllFinals(n) # {}
         THEN LET x == CHOOSE y \in AllFinals(n) : TRUE IN out[x[1]][x[2]].resp.message
         ELSE <<>>
CreatedReport == <<"File created successfully">>
\* notification n called Create and has reported what came of it
TriedCreate(n) ==
    \/ Reported(n) = CreatedReport
    \/ Len(Reported(n)) = 2 /\ Reported(n)[1] = "Failed to create file: "
\* no notification has deleted a record
NothingDeleted == \A n \in EventNos : Reported(n) # <<"File deleted successfully">>
\* two notifications from one client for one path and one workspace root
SamePath(n1, n2) ==
    /\ n1 # n2 /\ delivered[n1].conn = delivered[n2].conn
    /\ delivered[n1].file = delivered[n2].file

\* C13: the same-path race.  Nothing in the goroutine locks a path, so two
\* initial_scan/added notifications for one path with no record can both see
\* not-found and both call Create.  With a store that rejects the second
\* Create there is at most one live record per (workspace, path) in every
\* state, and of two such notifications (nothing deleted, no infrastructure
\* error) exactly one reports "File created successfully" and the other an
\* error "Failed to create file: ...".
C13_SamePathRace ==
    /\ \A f1, f2 \in files : (f1.ws = f2.ws /\ f1.path = f2.path) => f1 = f2
    /\ \A n1, n2 \in EventNos :
          (SamePath(n1, n2) /\ NothingDeleted /\ TriedCreate(n1) /\ TriedCreate(n2))
          => /\ ~(Reported(n1) = CreatedReport /\ Reported(n2) = CreatedReport)
             /\ (Reported(n1)[Len(Reported(n1))] # "db_error"
                 /\ Reported(n2)[Len(Reported(n2))] # "db_error")
                  => \/ Reported(n1) = CreatedReport
                     \/ Reported(n2) = CreatedReport
\* C13 happens: both goroutines saw not-found and called Create; one created
\* the record and the other was rejected by the store.
C13_Witness ==
    \E n1, n2 \in Decided :
        /\ SamePath(n1, n2)
        /\ Looked(tasks[n1]) /\ Looked(tasks[n2])
        /\ Lookup(tasks[n1]).err = "not_found" /\ Lookup(tasks[n2]).err = "not_found"
        /\ Reported(n1) = CreatedReport
        /\ Reported(n2) = <<"Failed to create file: ", "duplicate">>
        /\ Cardinality(files) = 1

\* the goroutine called the indexer, and the indexer failed
Indexed(t) == CallsOf(t, "GetAndSave") # {}
IndexFailed(t) == \E i \in CallsOf(t, "GetAndSave") : t.calls[i].err # Nil

\* C14: indexing is best effort.  A goroutine that called GetAndSave did so
\* after a Create or a modified Update that succeeded, and whether GetAndSave
\* failed or not its final result is success with "File created
\* successfully" or "File updated successfully"; the record it created or
\* updated is still in the store (unless another notification deleted it).
C14_BestEffortIndexing ==
    \A n \in Decided :
        LET t == tasks[n]
        IN  Indexed(t)
            => /\ \E i \in CallsOf(t, "Create") \cup CallsOf(t, "Update") : t.calls[i].err = Nil
               /\ t.finalStatus = "success"
               /\ t.message = (IF t.upd.Event = "modified"
                               THEN <<"File updated successfully">>
                               ELSE <<"File created successfully">>)
               /\ NothingDeleted
                    => \E f \in files : f.ws = t.workspaceID /\ f.path = t.upd.FilePath
\* C14 happens: the indexer failed after a Create and after a modified Update.
C14_Witness ==
    \E n1, n2 \in Decided :
        /\ IndexFailed(tasks[n1]) /\ tasks[n1].upd.Event = "modified"
        /\ IndexFailed(tasks[n2]) /\ tasks[n2].upd.Event = "added"
        /\ tasks[n2].finalStatus = "success"

\* no other notification has created a record since
NoneCreatedBut(n) ==
    \A m \in EventNos \ {n} : Reported(m) # CreatedReport /\ tasks[m].pc # "index"

\* C15: a deleted notification never calls Create or Update.  When its lookup
\* fails (not-found or any error) it calls no Delete and reports an error
\* "Failed to find file for deletion: ...".  When the lookup finds a record
\* it calls Delete once, with that record's id: on success it reports "File
\* deleted successfully" and the record is gone (no record is left for the
\* path unless another notification created one), on failure it reports an
\* error "Failed to delete file: ...".
C15_Deleted ==
    \A n \in Running :
        LET t == tasks[n]
        IN  t.upd.Event = "deleted"
            => /\ Ops(t) \cap {"Create", "Update", "GetAndSave"} = {}
               /\ (Looked(t) /\ Lookup(t).err # Nil)
                    => /\ n \in Decided
                       /\ "Delete" \notin Ops(t)
                       /\ t.finalStatus = "error"
                       /\ t.message = <<"Failed to find file for deletion: ", Lookup(t).err>>
               /\ Found(t)
                    => \/ t.pc = "delete" /\ "Delete" \notin Ops(t)
                       \/ /\ n \in Decided
                          /\ Cardinality(CallsOf(t, "Delete")) = 1
                          /\ \A i \in CallsOf(t, "Delete") :
                                /\ t.calls[i].id = Lookup(t).id
                                /\ t.calls[i].err = Nil
                                     => /\ t.finalStatus = "success"
                                        /\ t.message = <<"File deleted successfully">>
                                        /\ \A f \in files : f.id # Lookup(t).id
                                        /\ NoneCreatedBut(n)
                                             => FilesAt(t.workspaceID, t.upd.FilePath) = {}
                                /\ t.calls[i].err # Nil
                                     => /\ t.finalStatus = "error"
                                        /\ t.message = <<"Failed to delete file: ", t.calls[i].err>>
\* C15 happens: a deleted notification found the record, deleted it and is
\* reporting success, while another found nothing to delete.
C15_Witness ==
    \E n1, n2 \in Decided :
        /\ tasks[n1].upd.Event = "deleted" /\ Found(tasks[n1])
        /\ \E i \in CallsOf(tasks[n1], "Delete") : tasks[n1].calls[i].err = Nil
        /\ tasks[n1].message = <<"File deleted successfully">>
        /\ files = {}
        /\ tasks[n2].upd.Event = "deleted" /\ Looked(tasks[n2])
        /\ Lookup(tasks[n2]).err = "not_found"

\* a file:update whose first payload element is neither a map nor a string,
\* and one with no payload at all
OtherShape(n) == delivered[n].name = "file:update" /\ delivered[n].shape = "number"
NoPayload(n) == delivered[n].name = "file:update" /\ delivered[n].shape = "none"
\* the error reply the handler gives to each
ShapeError(n) ==
    ErrorMap(IF NoPayload(n) THEN <<"No data provided">>
             ELSE <<"Invalid data format - expected string or object">>)

\* C16 (as claimed, for events that carry an acknowledgement callback): a
\* file:update whose first payload element is neither a map nor a string is
\* answered by an error reply with message "Invalid data format", one with no
\* payload by an error reply "No data provided", and neither is processed
\* further.
C16_ShapeAnswered ==
    \A n \in EventNos :
        LET c == delivered[n].conn
        IN  ((OtherShape(n) \/ NoPayload(n)) /\ delivered[n].ack /\ ~Owed(c, n))
            => /\ tasks[n].pc = "none" /\ AllFinals(n) = {}
               /\ Cardinality(Replies(c, n)) = 1
               /\ \A i \in Replies(c, n) :
                     out[c][i].resp = ErrorMap(IF NoPayload(n) THEN <<"No data provided">>
                                               ELSE <<"Invalid data format">>)
\* C16 (amended): a file:update whose first payload element is neither a map
\* nor a string, or that has no payload, starts no goroutine and gets no
\* final result.  When the event carries an acknowledgement callback it is
\* answered by exactly one error reply, "Invalid data format - expected
\* string or object" for the first and "No data provided" for the second;
\* when it carries none, nothing is sent for it.
C16_ShapeRejected ==
    \A n \in EventNos :
        (OtherShape(n) \/ NoPayload(n))
        => LET c == delivered[n].conn
           IN  /\ tasks[n].pc = "none"
               /\ AllFinals(n) = {}
               /\ \A i \in Replies(c, n) : out[c][i].resp = ShapeError(n)
               /\ Owed(c, n) => /\ delivered[n].ack
                                /\ handler[c].resp = ShapeError(n)
                                /\ Replies(c, n) = {}
               /\ ~Owed(c, n) =>
                     Cardinality(Replies(c, n)) = (IF delivered[n].ack THEN 1 ELSE 0)
\* C16 happens: both kinds of event have been answered.
C16_Witness ==
    \E n1, n2 \in EventNos :
        /\ OtherShape(n1) /\ Replies(delivered[n1].conn, n1) # {}
        /\ NoPayload(n2) /\ Replies(delivered[n2].conn, n2) # {}

\* C17 (as claimed): a notification whose filePath is empty is invalid: for
\* every event kind its goroutine calls no Create, Update or Delete, and its
\* final result has status error.
C17_EmptyPathInvalid ==
    \A n \in Running :
        LET t == tasks[n]
        IN  t.upd.FilePath = ""
            => /\ Ops(t) \cap Mutations = {}
               /\ n \in Decided => t.finalStatus = "error"

\* the goroutine skips the notification: it reports that the file is up to
\* date and has changed nothing
Skipped(n) ==
    /\ n \in Decided
    /\ tasks[n].finalStatus = "success"
    /\ tasks[n].message = <<"File is already up-to-date">>
    /\ Ops(tasks[n]) \cap Mutations = {}

\* C18: the hash is the sole equality test.  For an initial_scan or added
\* notification whose lookup finds a record, the goroutine skips the
\* notification exactly when the notification's hash equals the record's
\* hash, whatever the two contents, the previousHash and the timestamp: with
\* equal hashes and different contents it reports "File is already
\* up-to-date" and issues no update, and two notifications that agree on
\* whether the hashes are equal take the same decision.
C18_HashSoleTest ==
    \A n1, n2 \in Running :
        LET t1 == tasks[n1]
            t2 == tasks[n2]
        IN  (AddEvent(t1) /\ Found(t1))
            => /\ Skipped(n1) <=> Lookup(t1).hash = t1.upd.Hash
               /\ Lookup(t1).hash # t1.upd.Hash
                    => t1.pc = "update" \/ "Update" \in Ops(t1)
               /\ (/\ AddEvent(t2) /\ Found(t2)
                   /\ (Lookup(t1).hash = t1.upd.Hash) <=> (Lookup(t2).hash = t2.upd.Hash))
                    => (Skipped(n1) <=> Skipped(n2))
\* C18 happens: one notification with the stored hash and another content is
\* skipped and the stored content is what it was, while one with another
\* hash and the stored content is about to update the record.
C18_Witness ==
    \E n1, n2 \in Running :
        /\ AddEvent(tasks[n1]) /\ Found(tasks[n1]) /\ Skipped(n1)
        /\ Lookup(tasks[n1]).content # tasks[n1].upd.Content
        /\ tasks[n1].upd.PreviousHash # "" /\ tasks[n1].upd.Timestamp # 0
        /\ \E f \in files : f.id = Lookup(tasks[n1]).id /\ f.content = Lookup(tasks[n1]).content
        /\ AddEvent(tasks[n2]) /\ Found(tasks[n2])
        /\ Lookup(tasks[n2]).hash # tasks[n2].upd.Hash
        /\ Lookup(tasks[n2]).content = tasks[n2].upd.Content
        /\ tasks[n2].pc = "update"

\* who is blocked in h.mu.Lock()
Waiting ==
    {T(n) : n \in {m \in EventNos : tasks[m].pc = "send"}}
    \cup {H(c) : c \in {d \in Conns : handler[d].pc = "lock"}}

\* C19, in every state: h.mu has at most one holder; a goroutine holds it
\* exactly while it is inside the socket.Emit of sendFinalResult, so never
\* before a call to the identity resolver, the workspace usecase, the file
\* store or the indexer and never when it asks for it; a handler holds it
\* exactly while it is inside data.Ack or the pong's Emit; and whoever waits
\* for it waits for a holder that can release it.
C19_MuDiscipline ==
    /\ Cardinality(mu) <= 1
    /\ \A n \in EventNos : T(n) \in mu <=> tasks[n].pc = "sending"
    /\ \A c \in Conns : H(c) \in mu <=> handler[c].pc = "locked"
    /\ mu \subseteq {T(n) : n \in EventNos} \cup {H(c) : c \in Conns}
    /\ \A n \in EventNos : InCall(tasks[n]) => T(n) \notin mu
    /\ Waiting \cap mu = {}
\* C19, over time: whoever asks for h.mu gets it and gives it back.
C19_LockGranted ==
    /\ \A n \in EventNos : (tasks[n].pc = "send") ~> (tasks[n].pc = "done" /\ T(n) \notin mu)
    /\ \A c \in Conns : (handler[c].pc = "lock") ~> (handler[c].pc = "idle" /\ H(c) \notin mu)
\* C19: h.mu is held only for the duration of one emit or ack, never across a
\* call to a collaborator and never re-acquired by its holder, so no state is
\* a deadlock on h.mu, and under fair scheduling every request for the lock
\* is granted and followed by its release.
C19_MutexDiscipline == []C19_MuDiscipline /\ C19_LockGranted
\* C19 happens: a goroutine holds h.mu inside its Emit while the handler and
\* another goroutine are both waiting for it.
C19_Witness ==
    \E n1, n2 \in EventNos : \E c \in Conns :
        /\ mu = {T(n1)}
        /\ T(n2) \in Waiting
        /\ H(c) \in Waiting

\* positions in a connection's log of the successful final results for path p
Successes(c, p) ==
    {i \in DOMAIN out[c] : /\ out[c][i].ev = "file:update:ack"
                           /\ out[c][i].resp.status = "success"
                           /\ out[c][i].resp.file = p}
\* the id of the most recent of them, which spells out the notification
LastSuccess(c, p) ==
    out[c][CHOOSE i \in Successes(c, p) : \A j \in Successes(c, p) : j <= i].resp.id

\* C20: last write wins.  When the notifications for one (user, workspace
\* root) are reconciled one at a time against a store and an identity
\* resolver that never fail, then whenever no goroutine is running: if some
\* notification for path p has ended in success, a record for p exists
\* exactly when the most recent such notification was initial_scan, added or
\* modified rather than deleted, and that record's hash is that
\* notification's hash; if none has, the store is as it was at the start.
C20_LastWriteWins ==
    /\ Cardinality(Running) <= 1
    /\ Running = {}
         => \A c \in {d \in Conns : handler[d].pc # "absent"} : \A p \in Paths :
               IF Successes(c, p) = {}
               THEN FilesAt("w1", p) \subseteq UNION InitialFiles
               ELSE LET last == LastSuccess(c, p)
                    IN  /\ FilesAt("w1", p) # {} <=> last[2] # "deleted"
                        /\ \A f \in FilesAt("w1", p) : f.hash = last[3]
\* C20 happens: a deleted notification succeeded, the modified notification
\* after it failed, and no record is left; or an update followed a create.
C20_Witness ==
    /\ Running = {}
    /\ \E i, j \in DOMAIN out[1] :
          /\ i < j
          /\ i \in Successes(1, "p") /\ out[1][i].resp.id[2] = "deleted"
          /\ out[1][j].ev = "file:update:ack" /\ out[1][j].resp.status = "error"
          /\ out[1][j].resp.id[2] = "modified"
    /\ FilesAt("w1", "p") = {}

\* the goroutine's Create, or its Update in the modified case, succeeded
Succeeded(t, op) == \E i \in CallsOf(t, op) : t.calls[i].err = Nil
ShouldIndex(t) ==
    \/ AddEvent(t) /\ Succeeded(t, "Create")
    \/ t.upd.Event = "modified" /\ Succeeded(t, "Update")

\* C21: the indexer is called exactly when it should be.  A goroutine that
\* has made all its calls has called GetAndSave once if its Create succeeded
\* (initial_scan/added with no record) or its modified Update succeeded, and
\* not at all otherwise: not when an initial_scan/added notification updated
\* an existing record, not when the file was up to date, not on deleted, not
\* on any path that ends in error.  Before that, it has called GetAndSave
\* only if it should, and is about to call it exactly when it should and has
\* not yet.
C21_IndexedExactlyOnSuccess ==
    \A n \in Running :
        LET t == tasks[n]
        IN  /\ Cardinality(CallsOf(t, "GetAndSave")) <= 1
            /\ Indexed(t) => ShouldIndex(t) /\ n \in Decided
            /\ t.pc = "index" <=> (ShouldIndex(t) /\ ~Indexed(t))
            /\ n \in Decided
                 => /\ Indexed(t) <=> ShouldIndex(t)
                    /\ (AddEvent(t) /\ "Update" \in Ops(t)) => ~Indexed(t)
                    /\ t.message = <<"File is already up-to-date">> => ~Indexed(t)
                    /\ t.upd.Event \notin {"initial_scan", "added", "modified"} => ~Indexed(t)
                    /\ t.finalStatus = "error" => ~Indexed(t)
\* C21 happens: an added notification updated an existing record and reports
\* success without having called the indexer, while a modified notification
\* updated the record and called it.
C21_Witness ==
    \E n1, n2 \in Decided :
        /\ AddEvent(tasks[n1]) /\ Succeeded(tasks[n1], "Update")
        /\ tasks[n1].finalStatus = "success" /\ ~Indexed(tasks[n1])
        /\ tasks[n2].upd.Event = "modified" /\ Succeeded(tasks[n2], "Update")
        /\ Indexed(tasks[n2])

====
